---- MODULE Spec2Model ----
(***************************************************************************)
(* Model of src/app.py, the Streamlit script "Badkamer Wandpaneel          *)
(* Visualizer".  A session is a sequence of script runs of main(); each    *)
(* run is started by one user event (page load, password entry, upload,    *)
(* tile selection, click on Generate, click on Download), runs the         *)
(* widget's callback first and then main() from the top.  pc is the        *)
(* position of the current run in main(); "idle" means that the run has    *)
(* ended (or was stopped by st.stop() or an uncaught exception) and the    *)
(* page waits for the next user event.                                     *)
(***************************************************************************)
EXTENDS Integers, Sequences, FiniteSets, TLC

(***************************************************************************)
(* Bounds of the model.                                                    *)
(***************************************************************************)
\* longest response.output list the endpoint returns
MaxOutputLen == 3
\* cap on the count of OpenAI(...) constructions that is kept
MaxConstructed == 3
\* longest tile name, in characters, that get_finish_instruction is tried on
MaxNameLen == 8

(***************************************************************************)
(* Values.                                                                 *)
(***************************************************************************)
\* Python's None
None == [none |-> TRUE]

\* texts a user can type in the password field / that PASSWORD can hold
Texts == {"", "geheim", "welkom"}

\* values of the OPENAI_API_KEY secret (when the key is present)
ApiKeys == {"", "sk-key"}

\* kinds of file a user can put in the bathroom uploader:
\*  "rgb"     opens and can be saved as PNG,
\*  "cmyk"    opens, but PNG cannot store its mode: image.save raises OSError,
\*  "corrupt" Image.open raises UnidentifiedImageError
UploadKinds == {"rgb", "cmyk", "corrupt"}

\* exceptions client.responses.create can raise: a transient and a fatal one
ApiErrors == {"RateLimitError", "AuthenticationError"}

(***************************************************************************)
(* Text: a str is a sequence of one-character strings.                     *)
(***************************************************************************)
UpperCase == <<"A","B","C","D","E","F","G","H","I","J","K","L","M","N","O","P","Q","R","S","T","U","V","W","X","Y","Z">>
LowerCase == <<"a","b","c","d","e","f","g","h","i","j","k","l","m","n","o","p","q","r","s","t","u","v","w","x","y","z">>

\* str.lower() on one character
LowerChar(c) ==
    IF \E i \in 1..Len(UpperCase) : UpperCase[i] = c
    THEN LowerCase[CHOOSE i \in 1..Len(UpperCase) : UpperCase[i] = c]
    ELSE c

\* str.lower()
lower(s) == [i \in 1..Len(s) |-> LowerChar(s[i])]

\* Python's  keyword in s  on strings
Contains(keyword, s) ==
    \E i \in 1..(Len(s) - Len(keyword) + 1) :
        SubSeq(s, i, i + Len(keyword) - 1) = keyword

(***************************************************************************)
(* get_finish_instruction, src/app.py 76-87.                               *)
(***************************************************************************)
FinishDefault  == "Apply appropriate finish based on reference image"
FinishGlossy   == "Apply glossy, reflective finish with sharp, clear reflections that accurately show the room's lighting"
FinishMatte    == "Apply matte, non-reflective finish with soft, diffused lighting and no sharp reflections"
FinishMatching == "Apply finish matching the reference image characteristics"
FinishClauses  == {FinishDefault, FinishGlossy, FinishMatte, FinishMatching}

GlossKeywords == {<<"g","l","a","n","s">>, <<"h","o","o","g","g","l","a","n","s">>}
MatteKeywords == {<<"m","a","t">>, <<"m","a","t","t","e">>}

\* mutant: the matte keywords are tried before the glossy ones
get_finish_instruction_matte_first(tile_name) ==
    IF tile_name = <<>> THEN FinishDefault
    ELSE LET tile_name_lower == lower(tile_name) IN
         IF \E keyword \in MatteKeywords : Contains(keyword, tile_name_lower)
         THEN FinishMatte
         ELSE IF \E keyword \in GlossKeywords : Contains(keyword, tile_name_lower)
         THEN FinishGlossy
         ELSE FinishMatching

get_finish_instruction(tile_name) ==
    IF tile_name = <<>> THEN FinishDefault
    ELSE LET tile_name_lower == lower(tile_name) IN
         IF \E keyword \in GlossKeywords : Contains(keyword, tile_name_lower)
         THEN FinishGlossy
         ELSE IF \E keyword \in MatteKeywords : Contains(keyword, tile_name_lower)
         THEN FinishMatte
         ELSE FinishMatching

\* the f-string of lines 194-231: the fixed text with the clause at line 220
PromptHead == "CRITICAL MASKING TASK: Apply new wall panels ONLY to specific masked areas. [...] Show panels as seamless, continuous surface with ZERO joints or grout lines"
PromptTail == "Maintain exact lighting from original photo [...] The bathtub must remain exactly as it is in the original photo."

ultra_specific_prompt(finish_instruction) ==
    <<PromptHead, finish_instruction, PromptTail>>

(***************************************************************************)
(* Images, PNG and base64.                                                 *)
(***************************************************************************)
\* Image.open(uploaded file of kind k); defined for k # "corrupt"
OpenUpload(k) == [file |-> "bathroom_upload",
                  mode |-> IF k = "cmyk" THEN "CMYK" ELSE "RGB"]

\* Image.open(tile_path)
OpenTile(tile_path) == [file |-> tile_path, mode |-> "RGB"]

\* mutant: the except clause of lines 564-568 assigns no image
Placeholder_none == None

\* Image.new('RGB', (200, 200), color='grey')
Placeholder == [mode |-> "RGB", size |-> <<200, 200>>, color |-> "grey"]

\* image.save(buffer, format="PNG") raises for a mode PNG cannot store
PngWritable(image) == image.mode # "CMYK"

\* the PNG bytes of an image
Png(image) == [format |-> "PNG", image |-> image]

\* base64.b64encode(bytes).decode()
b64encode(bytes) == [b64 |-> bytes]

\* encode_image_to_base64, lines 69-74; defined when PngWritable(image)
encode_image_to_base64(image) == b64encode(Png(image))

\* images the endpoint can produce
Generated == {[file |-> "generated_1", mode |-> "RGB"],
              [file |-> "generated_2", mode |-> "RGB"]}

\* what the result field of an image_generation_call can hold: the base64 of
\* a PNG, or text that is not the base64 of an image
BadPayload == [b64 |-> [format |-> "garbage"]]
Payloads == {b64encode(Png(g)) : g \in Generated} \cup {BadPayload}

\* base64.b64decode followed by Image.open succeeds
Decodable(payload) == payload.b64.format = "PNG"

\* Image.open(io.BytesIO(base64.b64decode(payload)))
DecodeImage(payload) == payload.b64.image

\* items of response.output
OutputItems ==
    {[type |-> "message"]}
    \cup {[type |-> "image_generation_call", result |-> p] : p \in Payloads}

\* the response.output lists
Outputs == UNION {[1..n -> OutputItems] : n \in 0..MaxOutputLen}

(***************************************************************************)
(* The catalog of main(), lines 512-549: display name -> image path.  The  *)
(* first entry and one tile of each naming pattern of the catalog are      *)
(* kept ("Hoogglans", "Glans", "Mat", "Matte").                            *)
(***************************************************************************)
NoTileSelected ==
    <<"-","-","-"," ","S","e","l","e","c","t","e","e","r"," ","e","e","n"," ","w","a","n","d","p","a","n","e","e","l"," ","-","-","-">>
HoogglansEffenWit ==
    <<"P","V","C"," ","H","o","o","g","g","l","a","n","s"," ","E","f","f","e","n"," ","W","i","t">>
CarnicoGlansGrijs ==
    <<"P","V","C"," ","C","a","r","n","i","c","o"," ","G","l","a","n","s"," ","G","r","i","j","s">>
CarnicoMatGrijs ==
    <<"P","V","C"," ","C","a","r","n","i","c","o"," ","M","a","t"," ","G","r","i","j","s">>
SilkMarbleMatte ==
    <<"S","P","C"," ","S","i","l","k"," ","M","a","r","b","l","e"," ","M","a","t","t","e">>

TileNames == {NoTileSelected, HoogglansEffenWit, CarnicoGlansGrijs,
              CarnicoMatGrijs, SilkMarbleMatte}

tile_options(name) ==
    CASE name = NoTileSelected    -> None
      [] name = HoogglansEffenWit -> "tiles/pvc_hoogglans_effen_wit.jpg"
      [] name = CarnicoGlansGrijs -> "tiles/pvc_carnico_glans_grijs.jpg"
      [] name = CarnicoMatGrijs   -> "tiles/pvc_carnico_mat_grijs.jpg"
      [] name = SilkMarbleMatte   -> "tiles/spc_silk_marble_matte.jpg"

(***************************************************************************)
(* What a run puts on the page.                                            *)
(***************************************************************************)
ErrNoSecretsFile  == "error: No secrets file found."
ErrNoPassword     == "error: Password not found in secrets."
PasswordInput     == "text_input: Password"
ErrIncorrect      == "error: Password incorrect"
Title             == "title: Badkamer Wandpaneel Visualizer"
ErrNoApiKey       == "error: OpenAI API key not found in secrets."
ErrIncompatible   == "error: OpenAI library version might be incompatible. Please check requirements."
BathroomUpload    == "file_uploader: bathroom_upload"
BathroomImage     == "image: Je badkamer"
TileSelect        == "selectbox: Kies een wandpaneel"
TileImage         == "image: Gekozen wandpaneel"
WarnTileNotFound  == "warning: Afbeelding niet gevonden"
TilePlaceholder   == "image: Placeholder"
GenerateButton    == "button: Genereer Visualisatie"
WarnUploadFirst   == "warning: Upload eerst een badkamer foto en kies een wandpaneel om te beginnen!"
ErrGenerate       == "error: Fout bij het genereren van afbeelding"
ErrNoImage        == "error: Geen afbeelding gegenereerd."
ErrMainGenerate   == "error: Er is een fout opgetreden bij het genereren"
Success           == "success: Visualisatie gegenereerd!"
BeforeImage       == "image: Voor"
AfterImage        == "image: Na - Ultra Specifiek"
DownloadButton    == "download_button: Download resultaat"
Footer            == "markdown: Gemaakt door DeltaFlow AI"
DebugInfo         == "expander: Debug Info"
UncaughtException == "exception: uncaught"

\* everything that is rendered only after check_password() returned True
PastGateElements ==
    {Title, ErrNoApiKey, ErrIncompatible, BathroomUpload, BathroomImage,
     TileSelect, TileImage, WarnTileNotFound, TilePlaceholder, GenerateButton,
     WarnUploadFirst, ErrGenerate, ErrNoImage, ErrMainGenerate, Success,
     BeforeImage, AfterImage, DownloadButton, Footer, DebugInfo,
     UncaughtException}

\* the result of a generation on the page
ResultElements == {Success, BeforeImage, AfterImage, DownloadButton}

VARIABLES
    secrets_file,        \* a .streamlit/secrets.toml exists
    secrets,             \* st.secrets: the keys of the file and their values
    has_responses,       \* hasattr(client, 'responses') in the installed openai
    session_state,       \* st.session_state of the browser session
    cache,               \* st.cache_resource entry of get_openai_client, or None
    constructed,         \* how many times OpenAI(...) was called
    uploaded_bathroom,   \* value of the file uploader: None or an upload kind
    selected_tile_name,  \* value of the selectbox
    trigger,             \* the user event that started the current run
    pc,                  \* position of the current run in main()
    client,              \* main's local
    final_tile_image,    \* main's local
    result_image,        \* main's local
    raised,              \* what generate_with_ultra_specific_masking caught
    rendered,            \* the elements the current run has put on the page
    calls,               \* calls of client.responses.create in the current run
    request,             \* arguments of the last such call of the run, or None
    response,            \* what that call returned or raised, or None
    download,            \* what the download button of the run offers, or None
    entered_match,       \* some entry of this session equalled PASSWORD
    tile_name,           \* a tile name that get_finish_instruction is tried on
    tried_prompt         \* the prompt built for tile_name, <<>> before that

vars == <<secrets_file, secrets, has_responses, session_state, cache,
          constructed, uploaded_bathroom, selected_tile_name, trigger, pc,
          client, final_tile_image, result_image, raised, rendered, calls,
          request, response, download, entered_match, tile_name,
          tried_prompt>>

config_vars  == <<secrets_file, secrets, has_responses>>
finish_vars  == <<tile_name, tried_prompt>>
widget_vars  == <<uploaded_bathroom, selected_tile_name>>
run_locals   == <<client, final_tile_image, result_image, raised, calls,
                  request, response, download>>

(***************************************************************************)
(* Dictionaries (st.secrets, st.session_state) are functions whose domain  *)
(* is the set of keys present.                                             *)
(***************************************************************************)
Has(d, k) == k \in DOMAIN d
Get(d, k, default) == IF Has(d, k) THEN d[k] ELSE default
Put(d, k, v) == [x \in DOMAIN d \cup {k} |-> IF x = k THEN v ELSE d[x]]
Del(d, k) == [x \in DOMAIN d \ {k} |-> d[x]]
EmptyDict == [x \in {} |-> None]

\* the secrets files there can be
SecretsDicts ==
    {EmptyDict}
    \cup {[x \in {"PASSWORD"} |-> p] : p \in Texts}
    \cup {[x \in {"OPENAI_API_KEY"} |-> k] : k \in ApiKeys}
    \cup {[x \in {"PASSWORD", "OPENAI_API_KEY"} |->
              IF x = "PASSWORD" THEN p ELSE k] : p \in Texts, k \in ApiKeys}

(***************************************************************************)
(* check_password, lines 9-49.                                             *)
(***************************************************************************)
\* mutant: the comparison of line 32 is dropped
password_entered_any(ss, password_from_secrets) ==
    Del(Put(ss, "password_correct", TRUE), "password")

\* mutant: line 34 is dropped
password_entered_keep(ss, password_from_secrets) ==
    IF ss["password"] = password_from_secrets
    THEN Put(ss, "password_correct", TRUE)
    ELSE Put(ss, "password_correct", FALSE)

\* the callback, lines 30-36: the new session state
password_entered(ss, password_from_secrets) ==
    IF ss["password"] = password_from_secrets
    THEN Del(Put(ss, "password_correct", TRUE), "password")
    ELSE Put(ss, "password_correct", FALSE)

\* st.text_input(..., key="password"): a new widget puts its value "" in
\* session state under its key
text_input(ss) == IF Has(ss, "password") THEN ss ELSE Put(ss, "password", "")

\* mutant: a missing PASSWORD key is not treated as a failure
check_password_no_keyerror(file, sec, ss) ==
    IF ~file
    THEN [returns |-> FALSE, shown |-> {ErrNoSecretsFile}, ss |-> ss]
    ELSE [returns |-> TRUE, shown |-> {}, ss |-> ss]

\* mutant: the early return of lines 38-39 is missing
check_password_no_early_return(file, sec, ss) ==
    IF ~file
    THEN [returns |-> FALSE, shown |-> {ErrNoSecretsFile}, ss |-> ss]
    ELSE IF ~Has(sec, "PASSWORD")
    THEN [returns |-> FALSE, shown |-> {ErrNoPassword}, ss |-> ss]
    ELSE LET ss2 == text_input(ss) IN
         [returns |-> Get(ss2, "password_correct", FALSE),
          shown   |-> {PasswordInput} \cup
                      (IF Has(ss2, "password_correct") /\ ~ss2["password_correct"]
                       THEN {ErrIncorrect} ELSE {}),
          ss      |-> ss2]

\* check_password(): what it returns, what it shows and the session state
\* it leaves
check_password(file, sec, ss) ==
    IF ~file
    THEN [returns |-> FALSE, shown |-> {ErrNoSecretsFile}, ss |-> ss]
    ELSE IF ~Has(sec, "PASSWORD")
    THEN [returns |-> FALSE, shown |-> {ErrNoPassword}, ss |-> ss]
    ELSE IF Get(ss, "password_correct", FALSE)
    THEN [returns |-> TRUE, shown |-> {}, ss |-> ss]
    ELSE LET ss2 == text_input(ss) IN
         [returns |-> Get(ss2, "password_correct", FALSE),
          shown   |-> {PasswordInput} \cup
                      (IF Has(ss2, "password_correct") /\ ~ss2["password_correct"]
                       THEN {ErrIncorrect} ELSE {}),
          ss      |-> ss2]

(***************************************************************************)
(* get_openai_client, lines 52-67, under @st.cache_resource.               *)
(***************************************************************************)
\* OpenAI(api_key=...): the n-th client constructed
OpenAI(api_key, n) == [api_key |-> api_key, serial |-> n]

\* mutant: the @st.cache_resource decorator is missing
get_openai_client_uncached(sec, lib_ok, cached, n) ==
    IF ~Has(sec, "OPENAI_API_KEY") \/ sec["OPENAI_API_KEY"] = ""
    THEN [stopped |-> TRUE, client |-> None, cache |-> cached,
          constructed |-> n, shown |-> {ErrNoApiKey}]
    ELSE LET c == OpenAI(sec["OPENAI_API_KEY"], n + 1) IN
         IF ~lib_ok
         THEN [stopped |-> TRUE, client |-> None, cache |-> cached,
               constructed |-> n + 1, shown |-> {ErrIncompatible}]
         ELSE [stopped |-> FALSE, client |-> c, cache |-> c,
               constructed |-> n + 1, shown |-> {}]

\* a call of get_openai_client(): whether it stopped the run, the client it
\* returned, the cache and the construction count it leaves, what it showed
get_openai_client(sec, lib_ok, cached, n) ==
    IF cached # None
    THEN [stopped |-> FALSE, client |-> cached, cache |-> cached,
          constructed |-> n, shown |-> {}]
    ELSE IF ~Has(sec, "OPENAI_API_KEY") \/ sec["OPENAI_API_KEY"] = ""
    THEN [stopped |-> TRUE, client |-> None, cache |-> cached,
          constructed |-> n, shown |-> {ErrNoApiKey}]
    ELSE LET c == OpenAI(sec["OPENAI_API_KEY"], n + 1) IN
         IF ~lib_ok
         THEN [stopped |-> TRUE, client |-> None, cache |-> cached,
               constructed |-> n + 1, shown |-> {ErrIncompatible}]
         ELSE [stopped |-> FALSE, client |-> c, cache |-> c,
               constructed |-> n + 1, shown |-> {}]

(***************************************************************************)
(* generate_with_ultra_specific_masking, lines 185-275.                    *)
(***************************************************************************)
\* mutant: the except clause names the transient errors only
Catches_transient(e) == e = "RateLimitError"

\* line 273, except Exception: every exception of the body is caught
Catches(e) == TRUE

\* an exception e raised in the body: caught at 273-275, or else by main's
\* except clause at 595-597; either way the result is None
Handle(e) ==
    IF Catches(e)
    THEN [error |-> e, caught_by |-> "generate_with_ultra_specific_masking",
          shown |-> {ErrGenerate}]
    ELSE [error |-> e, caught_by |-> "main", shown |-> {ErrMainGenerate}]

\* lines 256-262: the results of the image_generation_call items, in order
image_data(output) ==
    LET image_generation_calls ==
            SelectSeq(output, LAMBDA o : o.type = "image_generation_call")
    IN  [i \in 1..Len(image_generation_calls) |-> image_generation_calls[i].result]

\* mutant: the last payload is taken
image_base64_last(data) == data[Len(data)]

\* line 265
image_base64(data) == data[1]

\* lines 255-271 on a response: the image returned, the exception raised
\* or the message shown
Extract(output) ==
    LET data == image_data(output) IN
    IF data # <<>>
    THEN IF Decodable(image_base64(data))
         THEN [image |-> DecodeImage(image_base64(data)), raises |-> {},
               shown |-> {}]
         ELSE [image |-> None, raises |-> {"binascii.Error"}, shown |-> {}]
    ELSE [image |-> None, raises |-> {}, shown |-> {ErrNoImage}]

\* mutant: a failed call is tried again
after_create_retry(outcome) ==
    IF "raised" \in DOMAIN outcome THEN "create" ELSE "display"

\* where the run goes after client.responses.create returned or raised
after_create(outcome) == "display"

(***************************************************************************)
(* main, lines 469-647.                                                    *)
(***************************************************************************)
\* mutant: one image is enough
can_generate_either(uploaded, tile_image) ==
    uploaded # None \/ tile_image # None

\* line 577
can_generate(uploaded, tile_image) ==
    uploaded # None /\ tile_image # None

\* mutant: the result block is not guarded
show_result_always(image) == TRUE

\* line 599
show_result(image) == image # None

\* lines 619-631
download_button(image, original) ==
    [data |-> Png(image), file_name |-> "badkamer_visualisatie.png",
     mime |-> "image/png"]

(***************************************************************************)
(* Initial states: no session yet, any secrets file, any openai library.   *)
(***************************************************************************)
NoRun ==
    /\ client = None
    /\ final_tile_image = None
    /\ result_image = None
    /\ raised = None
    /\ calls = 0
    /\ request = None
    /\ response = None
    /\ download = None

Init ==
    /\ secrets_file \in BOOLEAN
    /\ secrets \in (IF secrets_file THEN SecretsDicts ELSE {EmptyDict})
    /\ has_responses \in BOOLEAN
    /\ session_state = EmptyDict
    /\ cache = None
    /\ constructed = 0
    /\ uploaded_bathroom = None
    /\ selected_tile_name = NoTileSelected
    /\ trigger = "none"
    /\ pc = "idle"
    /\ rendered = {}
    /\ entered_match = FALSE
    /\ NoRun
    /\ tile_name = <<>>
    /\ tried_prompt = <<>>

(***************************************************************************)
(* User events.  Each starts a run of main() with an empty page.           *)
(***************************************************************************)
Rerun(event) ==
    /\ pc = "idle"
    /\ constructed < MaxConstructed
    /\ pc' = "check_password"
    /\ trigger' = event
    /\ rendered' = {}
    /\ client' = None
    /\ final_tile_image' = None
    /\ result_image' = None
    /\ raised' = None
    /\ calls' = 0
    /\ request' = None
    /\ response' = None
    /\ download' = None
    /\ UNCHANGED <<config_vars, cache, constructed, finish_vars>>

\* the page is opened (or reloaded) in a browser: a new session
OpenPage ==
    /\ Rerun("load")
    /\ session_state' = EmptyDict
    /\ uploaded_bathroom' = None
    /\ selected_tile_name' = NoTileSelected
    /\ entered_match' = FALSE

\* the user types text in the password field: the widget's value changes,
\* on_change=password_entered runs, then the script
EnterPassword ==
    \E text \in Texts :
        /\ PasswordInput \in rendered
        /\ text # session_state["password"]
        /\ Rerun("password")
        /\ session_state' = password_entered(Put(session_state, "password", text),
                                             secrets["PASSWORD"])
        /\ entered_match' = (entered_match \/ text = secrets["PASSWORD"])
        /\ UNCHANGED widget_vars

\* the user puts a file in the uploader, or removes it
UploadBathroom ==
    \E file \in {None} \cup {[kind |-> k] : k \in UploadKinds} :
        /\ BathroomUpload \in rendered
        /\ file # uploaded_bathroom
        /\ Rerun("bathroom_upload")
        /\ uploaded_bathroom' = file
        /\ UNCHANGED <<session_state, selected_tile_name, entered_match>>

\* the user picks an entry of the selectbox
SelectTile ==
    \E name \in TileNames :
        /\ TileSelect \in rendered
        /\ name # selected_tile_name
        /\ Rerun("selectbox")
        /\ selected_tile_name' = name
        /\ UNCHANGED <<session_state, uploaded_bathroom, entered_match>>

\* the user clicks the Generate button
ClickGenerate ==
    /\ GenerateButton \in rendered
    /\ Rerun("generate")
    /\ UNCHANGED <<session_state, widget_vars, entered_match>>

\* the user clicks the download button
ClickDownload ==
    /\ DownloadButton \in rendered
    /\ Rerun("download")
    /\ UNCHANGED <<session_state, widget_vars, entered_match>>

(***************************************************************************)
(* The steps of a run of main().                                           *)
(***************************************************************************)
\* lines 476-480: the gate
RunCheckPassword ==
    /\ pc = "check_password"
    /\ LET r == check_password(secrets_file, secrets, session_state) IN
        /\ session_state' = r.ss
        /\ rendered' = rendered \cup r.shown \cup (IF r.returns THEN {Title} ELSE {})
        /\ pc' = IF r.returns THEN "get_client" ELSE "idle"
    /\ UNCHANGED <<config_vars, cache, constructed, widget_vars, trigger,
                   run_locals, entered_match, finish_vars>>

\* lines 482-488
RunGetClient ==
    /\ pc = "get_client"
    /\ LET r == get_openai_client(secrets, has_responses, cache, constructed) IN
        /\ client' = r.client
        /\ cache' = r.cache
        /\ constructed' = r.constructed
        /\ rendered' = rendered \cup r.shown
        /\ pc' = IF r.stopped THEN "idle" ELSE "upload"
    /\ UNCHANGED <<config_vars, session_state, widget_vars, trigger,
                   final_tile_image, result_image, raised, calls, request,
                   response, download, entered_match, finish_vars>>

\* lines 490-503: Image.open at 502 is not guarded
RunUpload ==
    /\ pc = "upload"
    /\ IF uploaded_bathroom # None /\ uploaded_bathroom.kind = "corrupt"
       THEN /\ rendered' = rendered \cup {BathroomUpload, UncaughtException}
            /\ pc' = "idle"
       ELSE /\ rendered' = rendered \cup {BathroomUpload} \cup
                           (IF uploaded_bathroom # None THEN {BathroomImage} ELSE {})
            /\ pc' = "tiles"
    /\ UNCHANGED <<config_vars, session_state, cache, constructed, widget_vars,
                   trigger, run_locals, entered_match, finish_vars>>

\* lines 505-568: the tile's file is there or not
RunTiles ==
    /\ pc = "tiles"
    /\ IF selected_tile_name # NoTileSelected
       THEN \E found \in BOOLEAN :
              IF found
              THEN /\ final_tile_image' = OpenTile(tile_options(selected_tile_name))
                   /\ rendered' = rendered \cup {TileSelect, TileImage}
              ELSE /\ final_tile_image' = Placeholder
                   /\ rendered' = rendered \cup {TileSelect, WarnTileNotFound,
                                                 TilePlaceholder}
       ELSE /\ final_tile_image' = None
            /\ rendered' = rendered \cup {TileSelect}
    /\ pc' = "button"
    /\ UNCHANGED <<config_vars, session_state, cache, constructed, widget_vars,
                   trigger, client, result_image, raised, calls, request,
                   response, download, entered_match, finish_vars>>

\* mutant: the click is remembered, and the button still reads as clicked
\* in the run that a click on the download button starts
RunButton_sticky ==
    /\ pc = "button"
    /\ IF trigger \in {"generate", "download"}
       THEN IF can_generate(uploaded_bathroom, final_tile_image)
            THEN /\ rendered' = rendered \cup {GenerateButton}
                 /\ pc' = "generate"
            ELSE /\ rendered' = rendered \cup {GenerateButton, WarnUploadFirst}
                 /\ pc' = "footer"
       ELSE /\ rendered' = rendered \cup {GenerateButton}
            /\ pc' = "footer"
    /\ UNCHANGED <<config_vars, session_state, cache, constructed, widget_vars,
                   trigger, run_locals, entered_match, finish_vars>>

\* lines 570-579 and 633-634: st.button is True in the run its click started
RunButton ==
    /\ pc = "button"
    /\ IF trigger = "generate"
       THEN IF can_generate(uploaded_bathroom, final_tile_image)
            THEN /\ rendered' = rendered \cup {GenerateButton}
                 /\ pc' = "generate"
            ELSE /\ rendered' = rendered \cup {GenerateButton, WarnUploadFirst}
                 /\ pc' = "footer"
       ELSE /\ rendered' = rendered \cup {GenerateButton}
            /\ pc' = "footer"
    /\ UNCHANGED <<config_vars, session_state, cache, constructed, widget_vars,
                   trigger, run_locals, entered_match, finish_vars>>

\* lines 581-593 and 188-231: the arguments are evaluated (Image.open at 589
\* is inside main's try), both images are encoded and the prompt is built
RunGenerate ==
    /\ pc = "generate"
    /\ IF uploaded_bathroom = None
       THEN \* Image.open(None) raises before the function is entered
            /\ raised' = [error |-> "AttributeError", caught_by |-> "main",
                          shown |-> {ErrMainGenerate}]
            /\ rendered' = rendered \cup {ErrMainGenerate}
            /\ request' = None
            /\ pc' = "display"
       ELSE LET original_image == OpenUpload(uploaded_bathroom.kind)
                selected_tile  == final_tile_image
                tile_name_for_prompt ==
                    IF selected_tile_name # NoTileSelected
                    THEN selected_tile_name ELSE <<>>
            IN  IF ~PngWritable(original_image)
                THEN /\ raised' = Handle("OSError")
                     /\ rendered' = rendered \cup raised'.shown
                     /\ request' = None
                     /\ pc' = "display"
                ELSE IF selected_tile = None
                THEN /\ raised' = Handle("AttributeError")
                     /\ rendered' = rendered \cup raised'.shown
                     /\ request' = None
                     /\ pc' = "display"
                ELSE /\ request' =
                          [model  |-> "gpt-4.1",
                           text   |-> ultra_specific_prompt(
                                          get_finish_instruction(tile_name_for_prompt)),
                           images |-> <<encode_image_to_base64(original_image),
                                        encode_image_to_base64(selected_tile)>>,
                           tools  |-> <<"image_generation">>]
                     /\ raised' = None
                     /\ rendered' = rendered
                     /\ pc' = "create"
    /\ UNCHANGED <<config_vars, session_state, cache, constructed, widget_vars,
                   trigger, client, final_tile_image, result_image, calls,
                   response, download, entered_match, finish_vars>>

\* lines 233-275: the one call of the endpoint, which raises or returns a
\* response, and the extraction of the image
RunCreate ==
    /\ pc = "create"
    /\ \E outcome \in {[raised |-> e] : e \in ApiErrors}
                      \cup {[output |-> o] : o \in Outputs} :
        /\ calls' = calls + 1
        /\ response' = outcome
        /\ pc' = after_create(outcome)
        /\ IF "raised" \in DOMAIN outcome
           THEN /\ raised' = Handle(outcome.raised)
                /\ result_image' = None
                /\ rendered' = rendered \cup raised'.shown
           ELSE LET x == Extract(outcome.output) IN
                IF x.raises # {}
                THEN /\ raised' = Handle(CHOOSE e \in x.raises : TRUE)
                     /\ result_image' = None
                     /\ rendered' = rendered \cup raised'.shown
                ELSE /\ raised' = None
                     /\ result_image' = x.image
                     /\ rendered' = rendered \cup x.shown
    /\ UNCHANGED <<config_vars, session_state, cache, constructed, widget_vars,
                   trigger, client, final_tile_image, request, download,
                   entered_match, finish_vars>>

\* lines 599-631
RunDisplay ==
    /\ pc = "display"
    /\ IF show_result(result_image)
       THEN /\ rendered' = rendered \cup ResultElements
            /\ download' = download_button(result_image,
                                           OpenUpload(uploaded_bathroom.kind))
       ELSE /\ rendered' = rendered
            /\ download' = None
    /\ pc' = "footer"
    /\ UNCHANGED <<config_vars, session_state, cache, constructed, widget_vars,
                   trigger, client, final_tile_image, result_image, raised,
                   calls, request, response, entered_match, finish_vars>>

\* lines 636-647: the footer, and the debug section with its second call of
\* get_openai_client
RunFooter ==
    /\ pc = "footer"
    /\ LET r == get_openai_client(secrets, has_responses, cache, constructed) IN
        /\ client' = IF r.stopped THEN client ELSE r.client
        /\ cache' = r.cache
        /\ constructed' = r.constructed
        /\ rendered' = rendered \cup {Footer, DebugInfo} \cup r.shown
    /\ pc' = "idle"
    /\ UNCHANGED <<config_vars, session_state, widget_vars, trigger,
                   final_tile_image, result_image, raised, calls, request,
                   response, download, entered_match, finish_vars>>

Next ==
    \/ OpenPage
    \/ EnterPassword
    \/ UploadBathroom
    \/ SelectTile
    \/ ClickGenerate
    \/ ClickDownload
    \/ RunCheckPassword
    \/ RunGetClient
    \/ RunUpload
    \/ RunTiles
    \/ RunButton
    \/ RunGenerate
    \/ RunCreate
    \/ RunDisplay
    \/ RunFooter

Spec == Init /\ [][Next]_vars

(***************************************************************************)
(* get_finish_instruction on tile names in general: a name is typed        *)
(* fragment by fragment, and the prompt is built for it as at lines        *)
(* 192-231.                                                                *)
(***************************************************************************)
Fragments ==
    {<<"g","l">>, <<"a","n","s">>, <<"G","L","A","N","S">>, <<"m","a">>,
     <<"t">>, <<"M","a","t">>, <<" ">>}

FinishInit ==
    /\ secrets_file = FALSE
    /\ secrets = EmptyDict
    /\ has_responses = TRUE
    /\ session_state = EmptyDict
    /\ cache = None
    /\ constructed = 0
    /\ uploaded_bathroom = None
    /\ selected_tile_name = NoTileSelected
    /\ trigger = "none"
    /\ pc = "idle"
    /\ rendered = {}
    /\ entered_match = FALSE
    /\ NoRun
    /\ tile_name = <<>>
    /\ tried_prompt = <<>>

main_vars == <<config_vars, session_state, cache, constructed, widget_vars,
               trigger, pc, run_locals, rendered, entered_match>>

TypeFragment ==
    \E f \in Fragments :
        /\ tried_prompt = <<>>
        /\ Len(tile_name) + Len(f) <= MaxNameLen
        /\ tile_name' = tile_name \o f
        /\ UNCHANGED <<tried_prompt, main_vars>>

BuildPrompt ==
    /\ tried_prompt = <<>>
    /\ tried_prompt' = ultra_specific_prompt(get_finish_instruction(tile_name))
    /\ UNCHANGED <<tile_name, main_vars>>

FinishNext == TypeFragment \/ BuildPrompt

FinishSpec == FinishInit /\ [][FinishNext]_vars

(***************************************************************************)
(* Vocabulary of the properties.                                           *)
(***************************************************************************)
PastGatePcs ==
    {"get_client", "upload", "tiles", "button", "generate", "create",
     "display", "footer"}

password_correct == Get(session_state, "password_correct", FALSE)

\* the current run was started by a click on Generate and has handled it
ClickHandled ==
    /\ trigger = "generate"
    /\ GenerateButton \in rendered
    /\ pc \in {"display", "footer", "idle"}

\* the run has reached its last line
RunCompleted == pc = "idle" /\ Footer \in rendered

(***************************************************************************)
(* C1.  Password gate: nothing past the gate (client, upload widgets, tile *)
(* selector, Generate button, a request) is reached unless                 *)
(* password_correct is True, and it is True only when some text entered in *)
(* this session equalled the stored PASSWORD; so without a matching entry  *)
(* no request is issued.                                                   *)
(***************************************************************************)
C1_PasswordGate ==
    /\ (\/ pc \in PastGatePcs
        \/ rendered \cap PastGateElements # {}
        \/ client # None
        \/ request # None
        \/ calls > 0
        \/ password_correct)
       => /\ password_correct
          /\ entered_match
          /\ secrets_file /\ Has(secrets, "PASSWORD")
    /\ ~entered_match => calls = 0 /\ request = None /\ response = None

\* a request was issued in a session where the password was entered
C1_Witness == calls = 1 /\ entered_match /\ password_correct

(***************************************************************************)
(* C2.  Generate precondition: generate_with_ultra_specific_masking is     *)
(* entered, and a request issued, only in a run started by a click on      *)
(* Generate with a bathroom photo uploaded and a tile image set; a click   *)
(* with either missing issues no request, shows the warning and shows no   *)
(* result or download button.                                              *)
(***************************************************************************)
C2_GeneratePrecondition ==
    /\ (pc \in {"generate", "create"} \/ request # None \/ calls > 0
        \/ raised # None \/ result_image # None)
       => /\ trigger = "generate"
          /\ uploaded_bathroom # None
          /\ final_tile_image # None
    /\ (/\ trigger = "generate"
        /\ GenerateButton \in rendered
        /\ (uploaded_bathroom = None \/ final_tile_image = None))
       => /\ WarnUploadFirst \in rendered
          /\ calls = 0 /\ request = None /\ response = None
          /\ rendered \cap ResultElements = {}
          /\ download = None
          /\ pc \in {"footer", "idle"}
    /\ WarnUploadFirst \in rendered
       => trigger = "generate"
          /\ (uploaded_bathroom = None \/ final_tile_image = None)

\* a click with a photo but no tile, after the run has ended
C2_Witness ==
    /\ RunCompleted
    /\ trigger = "generate"
    /\ uploaded_bathroom # None
    /\ final_tile_image = None
    /\ WarnUploadFirst \in rendered

(***************************************************************************)
(* C3.  Single request, no retry: a run makes at most one call of          *)
(* client.responses.create, only after a click on Generate; it makes       *)
(* exactly one when both images are present and both are encoded without   *)
(* error, whatever that call raises or returns.                            *)
(***************************************************************************)
C3_SingleRequest ==
    /\ calls <= 1
    /\ calls = 1 => trigger = "generate" /\ request # None /\ response # None
    /\ (/\ ClickHandled
        /\ uploaded_bathroom # None
        /\ final_tile_image # None
        /\ PngWritable(OpenUpload(uploaded_bathroom.kind))
        /\ PngWritable(final_tile_image))
       => calls = 1
    /\ (pc = "create") => calls = 0

\* the one call raised, and the run has ended without another
C3_Witness ==
    /\ RunCompleted
    /\ calls = 1
    /\ "raised" \in DOMAIN response

(***************************************************************************)
(* C4.  Failure handling: every exception raised in                        *)
(* generate_with_ultra_specific_masking (encoding, the call, decoding;     *)
(* transient or fatal) is caught by the function's own except clause: its  *)
(* error is shown, the function returns None, no result or download button *)
(* is shown, and the run goes on to the footer and the debug section.      *)
(***************************************************************************)
C4_FailureHandling ==
    /\ raised # None
       => /\ raised.caught_by = "generate_with_ultra_specific_masking"
          /\ ErrGenerate \in rendered
          /\ ErrMainGenerate \notin rendered
          /\ result_image = None
          /\ rendered \cap ResultElements = {}
          /\ download = None
          /\ pc \in {"display", "footer", "idle"}
          /\ pc = "idle" => {Footer, DebugInfo} \subseteq rendered
    \* each of the three places raises into that clause
    /\ (response # None /\ "raised" \in DOMAIN response)
       => raised # None /\ raised.error = response.raised
    /\ (/\ response # None /\ "output" \in DOMAIN response
        /\ \E i \in 1..Len(response.output) :
              /\ response.output[i].type = "image_generation_call"
              /\ ~Decodable(response.output[i].result)
              /\ \A j \in 1..(i - 1) : response.output[j].type = "message")
       => raised # None
    /\ (/\ ClickHandled
        /\ uploaded_bathroom # None
        /\ final_tile_image # None
        /\ uploaded_bathroom.kind = "cmyk")
       => raised # None /\ raised.error = "OSError" /\ calls = 0
    /\ ErrGenerate \in rendered => raised # None

\* a fatal error of the endpoint was caught and the run reached its end
C4_Witness ==
    /\ RunCompleted
    /\ raised # None
    /\ raised.error = "AuthenticationError"
    /\ ErrGenerate \in rendered

(***************************************************************************)
(* C5.  First image payload: from a response the function returns the      *)
(* image decoded from the result of the first item of type                 *)
(* image_generation_call, in list order, whatever other items and later    *)
(* image items the list holds; with no such item it shows 'Geen afbeelding *)
(* gegenereerd.' and returns None.  (A first payload that cannot be        *)
(* decoded raises, and the function returns None as in C4.)                *)
(***************************************************************************)
ImageIndexes(output) ==
    {i \in 1..Len(output) : output[i].type = "image_generation_call"}

FirstImageIndex(output) ==
    CHOOSE i \in ImageIndexes(output) : \A j \in ImageIndexes(output) : i <= j

C5_FirstImagePayload ==
    (response # None /\ "output" \in DOMAIN response)
    => LET output == response.output IN
       IF ImageIndexes(output) = {}
       THEN /\ result_image = None
            /\ ErrNoImage \in rendered
            /\ raised = None
       ELSE LET payload == output[FirstImageIndex(output)].result IN
            /\ ErrNoImage \notin rendered
            /\ IF Decodable(payload)
               THEN result_image = DecodeImage(payload) /\ raised = None
               ELSE result_image = None /\ raised # None

\* a message, then two image items with different images: the first is taken
C5_Witness ==
    /\ response # None /\ "output" \in DOMAIN response
    /\ Len(response.output) = 3
    /\ response.output[1].type = "message"
    /\ response.output[2].type = "image_generation_call"
    /\ response.output[3].type = "image_generation_call"
    /\ Decodable(response.output[2].result)
    /\ response.output[3].result # response.output[2].result
    /\ result_image = DecodeImage(response.output[2].result)

(***************************************************************************)
(* C6.  Finish clause: get_finish_instruction decides by case-insensitive  *)
(* substring match on the name: the empty name gives the 'appropriate      *)
(* finish' clause, a name with 'glans' the glossy clause, otherwise a name *)
(* with 'mat' the matte clause, otherwise the 'matching' clause; glossy    *)
(* wins when both occur; and the prompt holds exactly one clause.          *)
(***************************************************************************)
SameLetter(c, d) ==
    \/ c = d
    \/ \E k \in 1..Len(UpperCase) : {c, d} = {UpperCase[k], LowerCase[k]}

\* word occurs in name, the case of the letters of name ignored
OccursIgnoringCase(word, name) ==
    \E i \in 1..Len(name) :
        /\ i + Len(word) - 1 <= Len(name)
        /\ \A j \in 1..Len(word) : SameLetter(word[j], name[i + j - 1])

ExpectedClause(name) ==
    IF name = <<>> THEN FinishDefault
    ELSE IF OccursIgnoringCase(<<"g","l","a","n","s">>, name) THEN FinishGlossy
    ELSE IF OccursIgnoringCase(<<"m","a","t">>, name) THEN FinishMatte
    ELSE FinishMatching

C6_FinishClause ==
    tried_prompt # <<>>
    => /\ Cardinality({i \in 1..Len(tried_prompt) :
                          tried_prompt[i] \in FinishClauses}) = 1
       /\ \E i \in 1..Len(tried_prompt) : tried_prompt[i] = ExpectedClause(tile_name)

\* a name with 'GLANS' and 'Mat': the glossy clause is in the prompt
C6_Witness ==
    /\ tile_name = <<"M","a","t","G","L","A","N","S">>
    /\ tried_prompt # <<>>
    /\ tried_prompt[2] = FinishGlossy

(***************************************************************************)
(* C7.  Success display: the success message, the original beside the      *)
(* generated image and the download button are rendered if and only if     *)
(* generate_with_ultra_specific_masking returned an image; the download    *)
(* offers the PNG encoding of that image as 'badkamer_visualisatie.png'.   *)
(***************************************************************************)
C7_SuccessDisplay ==
    /\ rendered \cap ResultElements # {}
       => /\ ResultElements \subseteq rendered
          /\ result_image # None
          /\ trigger = "generate"
          /\ download # None
    /\ (pc \in {"footer", "idle"} /\ result_image # None)
       => ResultElements \subseteq rendered
    /\ download # None
       => /\ DownloadButton \in rendered
          /\ download.data = [format |-> "PNG", image |-> result_image]
          /\ download.file_name = "badkamer_visualisatie.png"
    /\ result_image # None
       => /\ response # None /\ "output" \in DOMAIN response
          /\ \E i \in 1..Len(response.output) :
                /\ response.output[i].type = "image_generation_call"
                /\ response.output[i].result = [b64 |-> [format |-> "PNG", image |-> result_image]]

\* the run of a click has ended with a result on the page
C7_Witness ==
    /\ RunCompleted
    /\ trigger = "generate"
    /\ result_image \in Generated
    /\ ResultElements \subseteq rendered
    /\ download # None

(***************************************************************************)
(* C8.  Lazy API client.  As claimed: the client is constructed only in    *)
(* get_openai_client(), after the gate has passed and with a non-empty     *)
(* OPENAI_API_KEY; it is constructed at most once and reused by every      *)
(* later run and by the call of the debug section; with the key missing or *)
(* empty the run stops before the upload widgets and the Generate button,  *)
(* nothing is cached and no request is issued.                             *)
(***************************************************************************)
ApiKeyUsable ==
    secrets_file /\ Has(secrets, "OPENAI_API_KEY") /\ secrets["OPENAI_API_KEY"] # ""

WidgetPcs == {"upload", "tiles", "button", "generate", "create", "display", "footer"}

\* the run was stopped at lines 482-488: nothing of the form was reached
C8_StoppedBeforeForm ==
    /\ cache = None
    /\ client = None
    /\ pc \notin WidgetPcs
    /\ rendered \cap {BathroomUpload, TileSelect, GenerateButton} = {}
    /\ calls = 0 /\ request = None /\ response = None

C8_OnlyWithKeyAfterGate ==
    (constructed > 0 \/ cache # None \/ client # None)
    => ApiKeyUsable /\ Has(secrets, "PASSWORD")

C8_Reused ==
    /\ cache # None => cache = OpenAI(secrets["OPENAI_API_KEY"], 1)
    /\ client # None => client = cache
    /\ pc \in WidgetPcs => client # None

\* C8 as stated: the client is constructed at most once in every
\* configuration, only with a usable key after the gate, and reused
C8_Original ==
    /\ C8_OnlyWithKeyAfterGate
    /\ C8_Reused
    /\ constructed <= 1
    /\ ~ApiKeyUsable => C8_StoppedBeforeForm /\ constructed = 0

\* C8 as amended: at most one construction when the constructed client has
\* the 'responses' attribute; when it has not (lines 63-65), a client is
\* constructed in each run that passes the gate, none is cached and the
\* run stops before the form as with a missing key.
C8_StateAmended ==
    /\ C8_OnlyWithKeyAfterGate
    /\ C8_Reused
    /\ has_responses => constructed <= 1 /\ (cache # None <=> constructed = 1)
    /\ ~ApiKeyUsable => C8_StoppedBeforeForm /\ constructed = 0
    /\ ~has_responses => C8_StoppedBeforeForm

C8_StepAmended ==
    /\ constructed' # constructed
       => /\ pc = "get_client"
          /\ password_correct
          /\ cache = None
          /\ constructed' = constructed + 1
    /\ cache # None => cache' = cache

\* C8 as amended: the client is constructed only at line 60 of a run that
\* has passed the gate with a usable key; a cached client is never replaced
\* and is the one every run uses; at most one is constructed when it has the
\* 'responses' attribute; otherwise the run stops before the form
C8_LazyClientAmended == []C8_StateAmended /\ [][C8_StepAmended]_vars

\* a later run, started by a click, has reused the one client up to the
\* debug section
C8_Witness ==
    /\ RunCompleted
    /\ trigger = "generate"
    /\ constructed = 1
    /\ cache # None
    /\ client = cache

(***************************************************************************)
(* C9.  Missing password secret: without a secrets file, or without a      *)
(* PASSWORD key in it, check_password() shows an error and returns False,  *)
(* the password input is not rendered, session state is not written, and   *)
(* main() stops: no user action sets password_correct or reaches the       *)
(* Generate button.                                                        *)
(***************************************************************************)
C9_MissingPasswordSecret ==
    (~secrets_file \/ ~Has(secrets, "PASSWORD"))
    => /\ session_state = EmptyDict
       /\ ~entered_match
       /\ pc \in {"idle", "check_password"}
       /\ rendered \subseteq {ErrNoSecretsFile, ErrNoPassword}
       /\ (pc = "idle" /\ trigger # "none")
          => rendered = {IF secrets_file THEN ErrNoPassword ELSE ErrNoSecretsFile}
       /\ cache = None /\ constructed = 0
       /\ calls = 0 /\ request = None
       /\ trigger \in {"none", "load"}

\* a secrets file without PASSWORD: the run has stopped on the error
C9_Witness ==
    /\ secrets_file
    /\ ~Has(secrets, "PASSWORD")
    /\ pc = "idle"
    /\ ErrNoPassword \in rendered

(***************************************************************************)
(* C10.  Password removal: the callback password_entered(), on a text      *)
(* equal to the stored password, sets password_correct to True and removes *)
(* 'password' from session state; on another text it sets password_correct *)
(* to False and leaves the entered text in session state.  Whenever        *)
(* password_correct is True, no password is held in session state.         *)
(***************************************************************************)
C10_Callback ==
    (pc = "idle" /\ trigger' = "password")
    => \/ /\ session_state'["password_correct"] = TRUE
          /\ ~Has(session_state', "password")
          /\ entered_match'
       \/ /\ session_state'["password_correct"] = FALSE
          /\ Has(session_state', "password")
          /\ session_state'["password"] # secrets["PASSWORD"]
          /\ session_state'["password"] # session_state["password"]
          /\ entered_match' = entered_match

C10_State == password_correct => ~Has(session_state, "password")

\* C10: each run of the callback removes the password on a match and keeps
\* the entered text on a mismatch; password_correct True always goes with
\* no 'password' in session state
C10_PasswordRemoval == []C10_State /\ [][C10_Callback]_vars

\* the callback has just accepted the password
C10_Witness ==
    /\ trigger = "password"
    /\ pc = "check_password"
    /\ password_correct
    /\ ~Has(session_state, "password")

(***************************************************************************)
(* C11.  Missing tile file.  As claimed: when the file of the selected     *)
(* tile is not found, a warning is shown and final_tile_image is a 200x200 *)
(* grey placeholder, not None, so the Generate precondition holds; a click *)
(* on Generate with a bathroom photo uploaded issues a request carrying    *)
(* the placeholder as the tile image and the finish clause of the selected *)
(* tile's name.                                                            *)
(***************************************************************************)
GreyPlaceholder == [mode |-> "RGB", size |-> <<200, 200>>, color |-> "grey"]

\* the file of the selected tile was not found in the current run
TileFileMissing == WarnTileNotFound \in rendered

C11_PlaceholderSet ==
    /\ TileFileMissing
       => /\ selected_tile_name # NoTileSelected
          /\ final_tile_image = GreyPlaceholder
          /\ TilePlaceholder \in rendered
          /\ TileImage \notin rendered
    /\ (TileSelect \in rendered /\ selected_tile_name # NoTileSelected)
       => final_tile_image # None
    /\ final_tile_image = GreyPlaceholder => TileFileMissing

\* with the placeholder and a photo the click enters the generation
C11_PreconditionHolds ==
    (/\ TileFileMissing
     /\ trigger = "generate"
     /\ GenerateButton \in rendered
     /\ uploaded_bathroom # None)
    => /\ WarnUploadFirst \notin rendered
       /\ pc \in {"generate", "create", "display", "footer", "idle"}
       /\ pc \in {"footer", "idle"} => (calls = 1 \/ raised # None)

\* the request of such a click carries the placeholder and the clause
C11_RequestCarriesPlaceholder ==
    (TileFileMissing /\ request # None)
    => /\ request.images[2] = [b64 |-> [format |-> "PNG", image |-> GreyPlaceholder]]
       /\ request.images[1] =
              [b64 |-> [format |-> "PNG",
                        image |-> [file |-> "bathroom_upload", mode |-> "RGB"]]]
       /\ request.text[2] = ExpectedClause(selected_tile_name)
       /\ request.text[2] \in {FinishGlossy, FinishMatte}

\* C11 as stated: every click with a photo uploaded and the tile file
\* missing issues a request carrying the placeholder
C11_Original ==
    /\ C11_PlaceholderSet
    /\ C11_PreconditionHolds
    /\ C11_RequestCarriesPlaceholder
    /\ (TileFileMissing /\ ClickHandled /\ uploaded_bathroom # None)
       => calls = 1 /\ request # None

\* C11 as amended: when the tile file is missing a warning is shown and
\* final_tile_image is the 200x200 grey placeholder, so the precondition of
\* Generate holds; a click with a bathroom photo that can be encoded as PNG
\* issues one request carrying the placeholder and the finish clause of the
\* selected name; with a photo that cannot be encoded the click enters the
\* generation, which fails in its except clause without a request
C11_MissingTileFile ==
    /\ C11_PlaceholderSet
    /\ C11_PreconditionHolds
    /\ C11_RequestCarriesPlaceholder
    /\ (TileFileMissing /\ ClickHandled /\ uploaded_bathroom # None)
       => IF uploaded_bathroom.kind = "cmyk"
          THEN calls = 0 /\ request = None /\ raised # None
               /\ raised.error = "OSError"
          ELSE calls = 1 /\ request # None

\* a click with the tile file missing: the request carried the placeholder
\* and the matte clause of the selected name
C11_Witness ==
    /\ RunCompleted
    /\ trigger = "generate"
    /\ TileFileMissing
    /\ selected_tile_name = CarnicoMatGrijs
    /\ calls = 1
    /\ request.images[2] = [b64 |-> [format |-> "PNG", image |-> GreyPlaceholder]]
    /\ request.text[2] = FinishMatte

(***************************************************************************)
(* C12.  Authentication is monotone within a session: once                 *)
(* password_correct is True it stays True after every later user action    *)
(* and rerun of the session, because check_password() returns before it    *)
(* renders the password input, so password_entered() cannot run again; and *)
(* an entry equal to the stored password, after any number of wrong        *)
(* entries, leaves password_correct True.                                  *)
(***************************************************************************)
\* a step that opens the page anew starts another session
NewSessionStep == pc = "idle" /\ trigger' = "load"

\* a step in which the callback password_entered() runs
CallbackStep == pc = "idle" /\ trigger' = "password"

C12_NoInputOnceCorrect ==
    password_correct
    => /\ PasswordInput \notin rendered
       /\ ErrIncorrect \notin rendered
       /\ ~ENABLED EnterPassword
       /\ entered_match

C12_Steps ==
    /\ (password_correct /\ ~NewSessionStep)
       => /\ password_correct'
          /\ session_state' = session_state
          /\ ~CallbackStep
    /\ (CallbackStep /\ entered_match') => password_correct'
    /\ (CallbackStep /\ ~entered_match')
       => ~password_correct' /\ Has(session_state', "password_correct")
    /\ password_correct' # password_correct => (CallbackStep \/ NewSessionStep)

\* C12: in a session password_correct, once True, stays True and the
\* callback never runs again; a callback run on the stored password makes it
\* True whatever was entered before, any other run leaves it False
C12_AuthMonotone == []C12_NoInputOnceCorrect /\ [][C12_Steps]_vars

\* a later run of the session, started by a click on Generate, has ended
\* with password_correct still True
C12_Witness ==
    /\ RunCompleted
    /\ trigger = "generate"
    /\ password_correct
    /\ entered_match

(***************************************************************************)
(* C13.  No result persistence: the generated image lives only in the      *)
(* locals of the run that a click on Generate started.  A run started by   *)
(* any other event (tile change, another upload, a click on the download   *)
(* button, a password entry, a page load) reads the Generate button as not *)
(* clicked: it issues no request and renders no result, success message or *)
(* download button.  A result is visible only in a run started by a click  *)
(* on Generate.                                                            *)
(***************************************************************************)
\* a user event starts a run
EventStep == pc = "idle" /\ pc' = "check_password"

C13_OnlyInGenerateRun ==
    /\ trigger # "generate"
       => /\ calls = 0 /\ request = None /\ response = None
          /\ result_image = None
          /\ raised = None
          /\ download = None
          /\ rendered \cap ResultElements = {}
          /\ WarnUploadFirst \notin rendered
          /\ pc \notin {"generate", "create", "display"}
    \* nothing of a result is kept in session state
    /\ DOMAIN session_state \subseteq {"password", "password_correct"}

C13_Steps ==
    \* every event starts from an empty page with no result in the locals
    /\ EventStep
       => /\ rendered' = {}
          /\ result_image' = None
          /\ download' = None
          /\ calls' = 0
    \* a result appears only in the course of a run started by a click
    /\ (result_image' # None \/ rendered' \cap ResultElements # {})
       => trigger = "generate" /\ trigger' = "generate" /\ pc # "idle"

\* C13: outside a run started by a click on Generate there is no request,
\* no result image, no success message and no download button; each event
\* discards the result of the run before it
C13_NoResultPersistence == []C13_OnlyInGenerateRun /\ [][C13_Steps]_vars

\* the download button of a result was clicked, and the run it started has
\* ended with both images still set and nothing of the result on the page
C13_Witness ==
    /\ RunCompleted
    /\ trigger = "download"
    /\ uploaded_bathroom # None
    /\ final_tile_image # None
    /\ rendered \cap ResultElements = {}
    /\ calls = 0

====
